---- MODULE Spec2Model ----
(***************************************************************************)
(* Model of package yell (src/yell.go, first revision in the file, lines   *)
(* 1-245): Logger construction, writer hot-swap, severity threshold, Log   *)
(* and Fatal.                                                              *)
(*                                                                         *)
(* Strings that the code indexes or slices (Logger.name, Sname entries,    *)
(* error texts) are sequences of byte values.  Writers are object          *)
(* identities; whether a writer also implements Lock/Unlock is IsLocker.   *)
(***************************************************************************)
EXTENDS Integers, Sequences, FiniteSets, TLC

----------------------------------------------------------------------------
(* Bounds of the model *)

\* largest in-range severity value offered as an input (Snolog + 1 included)
MaxSev == 5
\* longest message list offered to Log / Fatal
MaxMsgLen == 2
\* longest name offered to New
MaxNameLen == 5
\* number of concurrent callers (goroutines)
NProcs == 2
\* calls the concurrent callers make at most, all together
MaxCalls == 3
\* frames of the deepest call stack offered to Log
MaxDepth == 102
\* last reading of the clock in the concurrent model
MaxClock == 2

----------------------------------------------------------------------------
(* Severity: type Severity uint32 and its five levels *)

\* Severity is a uint32.  The code only compares severities, it never does
\* arithmetic on them, so the top of the range is represented by the largest
\* value the model checker's integers hold.
TopSev == 2147483647

Sinfo == 0
Swarn == 1
Serror == 2
Sfatal == 3
Snolog == 4

\* severities offered as inputs: the small ones and the top of the range
SevInputs == (0 .. MaxSev) \cup {TopSev}

----------------------------------------------------------------------------
(* Strings as byte sequences *)

\* "info:", "warn:", "error:", "fatal:"
SnameDefault ==
    << <<105, 110, 102, 111, 58>>,
       <<119, 97, 114, 110, 58>>,
       <<101, 114, 114, 111, 114, 58>>,
       <<102, 97, 116, 97, 108, 58>> >>

\* a replacement severity name a program may store in the table ("X:")
SnameAlt == <<88, 58>>

\* errMissing.Error() of the test sink, shortened to "missing"
errMissing == <<109, 105, 115, 115, 105, 110, 103>>

\* the nil io.Writer
nil == "nil"

\* error values: the nil error, and an error with a text
NoErr == [isnil |-> TRUE, text |-> <<>>]
Err(t) == [isnil |-> FALSE, text |-> t]
\* what the sink's Write may return
WriteResults == {NoErr, Err(errMissing)}

\* bytes offered in names: \t \n \v \r space ':' 'a'
NameBytes == {9, 10, 11, 13, 32, 58, 97}

\* valid name used for the Loggers of the operational model: ": ab:"
SampleNames == { <<58, 32, 97, 98, 58>> }

\* entries of the severity name table that the modelled program overwrites
SnameIdx == {Swarn, Sfatal}

----------------------------------------------------------------------------
(* Writers *)

\* io.Writer values that are not sync.Locker (e.g. *myWriter)
PlainWriters == {"W1", "W2"}
\* io.Writer values that also have Lock/Unlock (e.g. *myLocker)
Lockers == {"L1", "L2"}
Writers == PlainWriters \cup Lockers

\* the type assertion  w.(locker)
IsLocker(w) == w \in Lockers

----------------------------------------------------------------------------
(* Message lists *)

\* Caller(n): the caller-depth marker
Caller(n) == [caller |-> TRUE, v |-> n]
\* any other message element (printed by its value)
Val(n) == [caller |-> FALSE, v |-> n]

MsgElems == {Caller(1), Val(7)}

RECURSIVE SeqsUpTo(_, _)
SeqsUpTo(S, n) ==
    IF n = 0 THEN {<<>>}
    ELSE LET shorter == SeqsUpTo(S, n - 1)
         IN shorter \cup {Append(s, e) : s \in {t \in shorter : Len(t) = n - 1}, e \in S}

Msgs == SeqsUpTo(MsgElems, MaxMsgLen)

----------------------------------------------------------------------------
(* New *)

\* New without the test of the last interior byte
NewPanicsNoLastCheck(name, writer, minLevel) ==
    LET l == Len(name) - 1
    IN \/ l < 3
       \/ name[1] # 58
       \/ name[2] # 32
       \/ name[3] <= 32
       \/ name[l + 1] # 58
       \/ writer = nil
       \/ minLevel > Snolog

\* the condition under which New panics
NewPanics(name, writer, minLevel) ==
    LET l == Len(name) - 1
    IN \/ l < 3
       \/ name[1] # 58
       \/ name[2] # 32
       \/ name[3] <= 32
       \/ name[l] <= 32
       \/ name[l + 1] # 58
       \/ writer = nil
       \/ minLevel > Snolog

New(name, writer, minLevel) ==
    IF NewPanics(name, writer, minLevel)
    THEN [panicked |-> TRUE]
    ELSE [panicked |-> FALSE,
          lg |-> [name |-> name, writer |-> writer, minLevel |-> minLevel]]

\* Logger.Name: the name without the leading ": "
Name(lgr) == SubSeq(lgr.name, 3, Len(lgr.name))

----------------------------------------------------------------------------
(* Events a call produces, in program order: method calls on writers and   *)
(* the assignment of the Logger's writer field                             *)

LockEv(w) == [m |-> "Lock", w |-> w]
UnlockEv(w) == [m |-> "Unlock", w |-> w]
WriteEv(w, p) == [m |-> "Write", w |-> w, p |-> p]
AssignEv(w) == [m |-> "Assign", w |-> w]

\* lockers held after a sequence of events, starting from the set h
RECURSIVE HeldAfter(_, _)
HeldAfter(h, evs) ==
    IF evs = <<>> THEN h
    ELSE LET e == Head(evs)
         IN HeldAfter(IF e.m = "Lock" THEN h \cup {e.w}
                      ELSE IF e.m = "Unlock" THEN h \ {e.w}
                      ELSE h,
                      Tail(evs))

----------------------------------------------------------------------------
(* UpdateWriter *)

\* UpdateWriter that only refuses nil
UpdateWriterRefusesNilOnly(lgr, writer) == writer = nil

\* UpdateWriter that does not refuse nil
UpdateWriterRefusesLockersOnly(lgr, writer) ==
    IsLocker(lgr.writer) /\ IsLocker(writer) /\ lgr.writer # writer

\* the two early returns of UpdateWriter
UpdateWriterRefuses(lgr, writer) ==
    \/ writer = nil
    \/ IsLocker(lgr.writer) /\ IsLocker(writer) /\ lgr.writer # writer

\* UpdateWriter that takes the lock before comparing the two lockers
UpdateWriterCallsLockFirst(lgr, writer) ==
    IF writer = nil THEN <<>>
    ELSE IF IsLocker(lgr.writer)
         THEN (IF UpdateWriterRefuses(lgr, writer)
               THEN <<LockEv(lgr.writer), UnlockEv(lgr.writer)>>
               ELSE <<LockEv(lgr.writer), AssignEv(writer), UnlockEv(lgr.writer)>>)
         ELSE <<AssignEv(writer)>>

\* UpdateWriter that swaps the writer before taking the lock
UpdateWriterCallsAssignFirst(lgr, writer) ==
    IF UpdateWriterRefuses(lgr, writer) THEN <<>>
    ELSE IF IsLocker(lgr.writer)
         THEN <<AssignEv(writer), LockEv(lgr.writer), UnlockEv(lgr.writer)>>
         ELSE <<AssignEv(writer)>>

\* what a call of UpdateWriter does, in order
UpdateWriterCalls(lgr, writer) ==
    IF UpdateWriterRefuses(lgr, writer) THEN <<>>
    ELSE IF IsLocker(lgr.writer)
         THEN <<LockEv(lgr.writer), AssignEv(writer), UnlockEv(lgr.writer)>>
         ELSE <<AssignEv(writer)>>

\* the Logger after a sequence of events
RECURSIVE LoggerAfter(_, _)
LoggerAfter(lgr, evs) ==
    IF evs = <<>> THEN lgr
    ELSE LET e == Head(evs)
         IN LoggerAfter(IF e.m = "Assign" THEN [lgr EXCEPT !.writer = e.w] ELSE lgr,
                        Tail(evs))

UpdateWriter(lgr, writer) ==
    LET evs == UpdateWriterCalls(lgr, writer)
    IN [success |-> ~UpdateWriterRefuses(lgr, writer),
        calls |-> evs,
        lg |-> LoggerAfter(lgr, evs)]

----------------------------------------------------------------------------
(* SetLevel, GetLevel *)

\* SetLevel without the clamp
SetLevelNoClamp(lgr, level) == [lgr EXCEPT !.minLevel = level]

SetLevel(lgr, level) ==
    [lgr EXCEPT !.minLevel = IF level > Snolog THEN Snolog ELSE level]

GetLevel(lgr) == lgr.minLevel

----------------------------------------------------------------------------
(* Log *)

\* the gate at the head of Log
Gate(lgr, level, msg) ==
    lgr.minLevel <= level /\ level < Snolog /\ 0 < Len(msg)

\* Log without the return for a message that is only a marker
OnlyCallerNever(msg) == FALSE

\* msg[0].(Caller) succeeded and nothing follows the marker
OnlyCaller(msg) == msg[1].caller /\ Len(msg) = 1

\* Log gets as far as writing
LogEmits(lgr, level, msg) == Gate(lgr, level, msg) /\ ~OnlyCaller(msg)

\* largest caller depth Log accepts
MaxSkip == 99

\* Log without the upper clamp of the caller depth
SkipNoCap(msg) ==
    IF msg[1].caller THEN (IF msg[1].v < 0 THEN 0 ELSE msg[1].v) ELSE 0

\* the caller depth after clamping
Skip(msg) ==
    IF msg[1].caller
    THEN (IF msg[1].v < 0 THEN 0 ELSE IF msg[1].v > MaxSkip THEN MaxSkip ELSE msg[1].v)
    ELSE 0

\* decimal digits of a natural number, and of an integer
RECURSIVE NatDigits(_)
NatDigits(n) == IF n < 10 THEN <<48 + n>> ELSE NatDigits(n \div 10) \o <<48 + (n % 10)>>
Digits(n) == IF n < 0 THEN <<45>> \o NatDigits(0 - n) ELSE NatDigits(n)

\* two digits with a leading zero, as the layout elements "15" and "04" print
TwoDigits(n) == <<48 + (n \div 10), 48 + (n % 10)>>

\* A time is a number of minutes since midnight UTC; time.Now() carries the
\* local zone, now.UTC() drops it.
ZoneOffset == 3 * 60
Local(t) == [min |-> t, off |-> ZoneOffset]
ToUTC(tm) == [min |-> tm.min, off |-> 0]

\* values of TimeFormat: "15:04" and its prefix "15"
LongLayout == <<"15", ":", "04">>
ShortLayout == <<"15">>

\* now.Format(layout)
RECURSIVE Format(_, _)
Format(tm, layout) ==
    IF layout = <<>> THEN <<>>
    ELSE LET wall == (tm.min + tm.off) % (24 * 60)
             el == Head(layout)
         IN (IF el = "15" THEN TwoDigits(wall \div 60)
             ELSE IF el = "04" THEN TwoDigits(wall % 60)
             ELSE <<58>>)
            \o Format(tm, Tail(layout))

\* the rendered timestamp: now = now.UTC() if UTC, then now.Format(TimeFormat)
TimeStr(env) ==
    Format(IF env.utc THEN ToUTC(Local(env.now)) ELSE Local(env.now), env.layout)

\* filepath.Base of a slash-separated path
RECURSIVE Base(_)
Base(path) ==
    IF \E i \in 1 .. Len(path) : path[i] = 47
    THEN Base(Tail(path))
    ELSE path

\* The call stack above Log: stack[n] is what runtime.Caller(n) reports, so
\* stack[1] is the line that called Log.  The j-th frame of the calling
\* program is the file "/s/<j>.go"-like path below, at line 10 + j.
UserSite(j) == [file |-> <<47, 115, 47, 64 + j>>, line |-> 10 + j]
\* the line of Info/Warn/Error/Fatal that calls Default.Log
WrapperSite == [file |-> <<47, 121, 47, 121>>, line |-> 224]

\* the stack of a program with `depth` frames that calls Log itself
\* (direct) or through one of the wrappers
StackOf(direct, depth) ==
    IF direct THEN [j \in 1 .. depth |-> UserSite(j)]
    ELSE <<WrapperSite>> \o [j \in 1 .. depth |-> UserSite(j)]

\* runtime.Caller(n)
RuntimeCaller(stack, n) ==
    IF n <= Len(stack) THEN [ok |-> TRUE, file |-> stack[n].file, line |-> stack[n].line]
    ELSE [ok |-> FALSE, file |-> <<>>, line |-> 0]

\* the frame Log asks for: runtime.Caller(int(skip) + 2)
LogLoc(stack, msg) == RuntimeCaller(stack, Skip(msg) + 2)

\* the location segment " file:line:" of prem, empty when the lookup fails
LocSeg(c) ==
    IF c.ok THEN <<32>> \o Base(c.file) \o <<58>> \o Digits(c.line) \o <<58>>
    ELSE <<>>

\* stored name followed by the severity name of the table
Prem(lgr, sname, level) == lgr.name \o sname[level + 1]

\* prem as Log hands it to Fprintln: timestamp, name, severity name, location
PremOf(lgr, sname, env, level, msg) ==
    TimeStr(env) \o Prem(lgr, sname, level) \o LocSeg(LogLoc(env.stack, msg))

\* fmt's default rendering of a message element
Render(e) == Digits(e.v)

RECURSIVE SpacedRest(_)
SpacedRest(rest) ==
    IF rest = <<>> THEN <<>>
    ELSE <<32>> \o Render(Head(rest)) \o SpacedRest(Tail(rest))

\* Fprintln without the final newline
FprintlnNoNewline(args) == args.prem \o SpacedRest(args.rest)

\* the bytes fmt.Fprintln hands to Write: operands separated by spaces, then a newline
Fprintln(args) == args.prem \o SpacedRest(args.rest) \o <<10>>

\* the argument list handed to Fprintln: prem takes the marker's place or is prepended
LogArgs(prem, msg) ==
    IF msg[1].caller THEN [prem |-> prem, rest |-> Tail(msg)]
    ELSE [prem |-> prem, rest |-> msg]

\* Log that writes before it locks
LogCallsWriteFirst(lgr, p) ==
    IF IsLocker(lgr.writer)
    THEN <<WriteEv(lgr.writer, p), LockEv(lgr.writer), UnlockEv(lgr.writer)>>
    ELSE <<WriteEv(lgr.writer, p)>>

\* the calls Log makes on the writer once it got past the gate
LogCalls(lgr, p) ==
    IF IsLocker(lgr.writer)
    THEN <<LockEv(lgr.writer), WriteEv(lgr.writer, p), UnlockEv(lgr.writer)>>
    ELSE <<WriteEv(lgr.writer, p)>>

\* Log that drops the error of Fprintln
LogErrSwallowed(werr) == NoErr

\* the error Log returns, given what the sink's Write returned
LogErr(werr) == werr

Log(lgr, sname, env, level, msg, werr) ==
    IF ~LogEmits(lgr, level, msg)
    THEN [err |-> NoErr, calls |-> <<>>]
    ELSE [err |-> LogErr(werr),
          calls |-> LogCalls(lgr, Fprintln(LogArgs(PremOf(lgr, sname, env, level, msg), msg)))]

\* the clock, the time settings and the stack of the sequential model's calls
SeqEnvs ==
    {[now |-> 0, utc |-> FALSE, layout |-> LongLayout, stack |-> StackOf(FALSE, 2)]}

----------------------------------------------------------------------------
(* Fatal *)

\* Fatal that leaves the write error out of the panic message
FatalMsgNoErr(lgr, sname, err) == Name(lgr) \o sname[Sfatal + 1]

\* the panic message of Fatal
FatalMsg(lgr, sname, err) ==
    Name(lgr) \o sname[Sfatal + 1] \o (IF err.isnil THEN <<>> ELSE err.text)

----------------------------------------------------------------------------
(* State *)

VARIABLES
    lg,      \* the Logger: [name, writer, minLevel]
    Sname,   \* the process-wide table of severity names
    held,    \* lockers that are locked (sequential model)
    calls,   \* events of the last completed call, in order
    last,    \* the last completed call: operation, arguments, result
    old,     \* the Logger before the last completed call
    nargs,   \* arguments given to New
    nres,    \* what New did with them
    lin,     \* a Log call with its environment
    lout,    \* what Log did with it
    mu,      \* per locker: the process holding it, 0 when free
    pc,      \* per process: position in its current call
    lc,      \* per process: the locker bound by  lc, ok := lg.writer.(locker)
    uw,      \* per process: the argument of its UpdateWriter call
    ncalls,  \* calls started so far, by all processes
    clock,   \* the wall clock, in minutes
    ts,      \* per process: now, the clock value its Log call read (NoTime before)
    lone,    \* per process: the message of its Log call is only a marker
    tw,      \* per process: the value of lg.writer its Log call type-tested
    wr       \* the last Write on a sink: target, timestamp, writer tested by the caller

seqVars == <<lg, Sname, held, calls, last, old>>
newVars == <<nargs, nres, lin, lout>>
concVars == <<mu, pc, lc, uw, ncalls, clock, ts, lone, tw, wr>>
vars == <<lg, Sname, held, calls, last, old, nargs, nres, lin, lout, mu, pc, lc, uw, ncalls,
         clock, ts, lone, tw, wr>>

\* Loggers New returns for the sample names
SampleLoggers ==
    {New(n, w, l).lg : <<n, w, l>> \in
        {t \in SampleNames \X Writers \X (Sinfo .. Snolog) : ~NewPanics(t[1], t[2], t[3])}}

NewIdle == nargs = <<>> /\ nres = <<>> /\ lin = <<>> /\ lout = <<>>
ConcIdle ==
    /\ mu = <<>> /\ pc = <<>> /\ lc = <<>> /\ uw = <<>> /\ ncalls = <<>>
    /\ clock = 0 /\ ts = <<>> /\ lone = <<>> /\ tw = <<>> /\ wr = <<>>

----------------------------------------------------------------------------
(* Sequential model: one call at a time on one Logger *)

Init ==
    /\ lg \in SampleLoggers
    /\ Sname = SnameDefault
    /\ held = {}
    /\ calls = <<>>
    /\ last = [op |-> "New"]
    /\ old = lg
    /\ NewIdle
    /\ ConcIdle

\* lg.UpdateWriter(writer)
DoUpdateWriter(writer) ==
    LET r == UpdateWriter(lg, writer)
    IN /\ \A i \in 1 .. Len(r.calls) : r.calls[i].m = "Lock" => r.calls[i].w \notin held
       /\ lg' = r.lg
       /\ calls' = r.calls
       /\ held' = HeldAfter(held, r.calls)
       /\ last' = [op |-> "UpdateWriter", writer |-> writer, success |-> r.success]
       /\ old' = lg
       /\ UNCHANGED <<Sname, newVars, concVars>>

\* lg.SetLevel(level)
DoSetLevel(level) ==
    /\ lg' = SetLevel(lg, level)
    /\ calls' = <<>>
    /\ last' = [op |-> "SetLevel", level |-> level]
    /\ old' = lg
    /\ UNCHANGED <<Sname, held, newVars, concVars>>

\* lg.GetLevel()
DoGetLevel ==
    /\ calls' = <<>>
    /\ last' = [op |-> "GetLevel", ret |-> GetLevel(lg)]
    /\ old' = lg
    /\ UNCHANGED <<lg, Sname, held, newVars, concVars>>

\* lg.Name()
DoName ==
    /\ calls' = <<>>
    /\ last' = [op |-> "Name", ret |-> Name(lg)]
    /\ old' = lg
    /\ UNCHANGED <<lg, Sname, held, newVars, concVars>>

\* yell.Sname[i] = s
DoSetSname(i, s) ==
    /\ Sname' = [Sname EXCEPT ![i + 1] = s]
    /\ calls' = <<>>
    /\ last' = [op |-> "SetSname", i |-> i]
    /\ old' = lg
    /\ UNCHANGED <<lg, held, newVars, concVars>>

\* lg.Log(level, msg...), the sink's Write returning werr if it is called
DoLog(env, level, msg, werr) ==
    LET r == Log(lg, Sname, env, level, msg, werr)
    IN /\ \A i \in 1 .. Len(r.calls) : r.calls[i].m = "Lock" => r.calls[i].w \notin held
       /\ calls' = r.calls
       /\ held' = HeldAfter(held, r.calls)
       /\ last' = [op |-> "Log", level |-> level, msg |-> msg, werr |-> werr, err |-> r.err]
       /\ old' = lg
       /\ UNCHANGED <<lg, Sname, newVars, concVars>>

\* Fatal(msg...) on this Logger: Log at Sfatal, then panic(pm)
DoFatal(env, msg, werr) ==
    LET r == Log(lg, Sname, env, Sfatal, msg, werr)
    IN /\ \A i \in 1 .. Len(r.calls) : r.calls[i].m = "Lock" => r.calls[i].w \notin held
       /\ calls' = r.calls
       /\ held' = HeldAfter(held, r.calls)
       /\ last' = [op |-> "Fatal", msg |-> msg, werr |-> werr, err |-> r.err,
                   panicked |-> TRUE, pm |-> FatalMsg(lg, Sname, r.err)]
       /\ old' = lg
       /\ UNCHANGED <<lg, Sname, newVars, concVars>>

Next ==
    \/ \E w \in Writers \cup {nil} : DoUpdateWriter(w)
    \/ \E v \in SevInputs : DoSetLevel(v)
    \/ DoGetLevel
    \/ DoName
    \/ \E i \in SnameIdx : \E s \in {SnameDefault[i + 1], SnameAlt} : DoSetSname(i, s)
    \/ \E n \in SeqEnvs, v \in SevInputs, m \in Msgs, e \in WriteResults : DoLog(n, v, m, e)
    \/ \E n \in SeqEnvs, m \in Msgs, e \in WriteResults : DoFatal(n, m, e)

Spec == Init /\ [][Next]_vars

----------------------------------------------------------------------------
(* New as a function of its arguments *)

Names == SeqsUpTo(NameBytes, MaxNameLen)
NewWriters == {nil, "W1", "L1"}
NewLevels == {Sinfo, Snolog, MaxSev, TopSev}

SeqIdle ==
    /\ lg = <<>> /\ Sname = SnameDefault /\ held = {}
    /\ calls = <<>> /\ last = <<>> /\ old = <<>>

InitNew ==
    /\ nargs \in [name : Names, writer : NewWriters, minLevel : NewLevels]
    /\ nres = [called |-> FALSE]
    /\ lin = <<>> /\ lout = <<>>
    /\ SeqIdle
    /\ ConcIdle

\* New(nargs.name, nargs.writer, nargs.minLevel)
DoNew ==
    /\ ~nres.called
    /\ nres' = [called |-> TRUE, r |-> New(nargs.name, nargs.writer, nargs.minLevel)]
    /\ UNCHANGED <<nargs, lin, lout, seqVars, concVars>>

NextNew == DoNew

SpecNew == InitNew /\ [][NextNew]_vars

----------------------------------------------------------------------------
(* Log as a function of its arguments and its environment *)

LogElems ==
    {Caller(-1), Caller(0), Caller(1), Caller(MaxSkip), Caller(MaxSkip + 1), Val(7)}
LogMsgs == SeqsUpTo(LogElems, MaxMsgLen)

\* 00:00 and 21:30 UTC
LogTimes == {0, 21 * 60 + 30}
LogDepths == {1, 2, 3, MaxDepth}

LogInputs ==
    [lgr : {l \in SampleLoggers : l.writer \in {"W1", "L1"} /\ l.minLevel = Sinfo},
     sname : {SnameDefault, [SnameDefault EXCEPT ![Swarn + 1] = SnameAlt]},
     now : LogTimes, utc : BOOLEAN, layout : {LongLayout, ShortLayout},
     direct : BOOLEAN, depth : LogDepths,
     level : {Sinfo, Swarn}, msg : LogMsgs, werr : WriteResults]

\* the environment of the call lin
EnvOf(in) ==
    [now |-> in.now, utc |-> in.utc, layout |-> in.layout,
     stack |-> StackOf(in.direct, in.depth)]

InitLog ==
    /\ lin \in LogInputs
    /\ lout = [called |-> FALSE]
    /\ nargs = <<>> /\ nres = <<>>
    /\ SeqIdle
    /\ ConcIdle

\* lin.lgr.Log(lin.level, lin.msg...) in the environment of lin
DoLogRecord ==
    /\ ~lout.called
    /\ lout' = [called |-> TRUE,
                emits |-> LogEmits(lin.lgr, lin.level, lin.msg),
                loc |-> IF LogEmits(lin.lgr, lin.level, lin.msg)
                        THEN LogLoc(EnvOf(lin).stack, lin.msg)
                        ELSE RuntimeCaller(<<>>, 1),
                r |-> Log(lin.lgr, lin.sname, EnvOf(lin), lin.level, lin.msg, lin.werr)]
    /\ UNCHANGED <<lin, nargs, nres, seqVars, concVars>>

NextLog == DoLogRecord

SpecLog == InitLog /\ [][NextLog]_vars

----------------------------------------------------------------------------------------------------------------------------------------
(* Concurrent model: goroutines calling Log and UpdateWriter on one Logger *)
(* whose writer is a mutex.  Each step is one access to shared state.      *)

Procs == 1 .. NProcs

\* no clock value read yet
NoTime == 0 - 1

InitConc ==
    /\ lg = New(CHOOSE n \in SampleNames : TRUE, "L1", Swarn).lg
    /\ Sname = SnameDefault
    /\ held = {} /\ calls = <<>> /\ last = <<>> /\ old = <<>>
    /\ NewIdle
    /\ mu = [l \in Lockers |-> 0]
    /\ pc = [p \in Procs |-> "idle"]
    /\ lc = [p \in Procs |-> nil]
    /\ uw = [p \in Procs |-> nil]
    /\ ncalls = 0
    /\ clock = 0
    /\ ts = [p \in Procs |-> NoTime]
    /\ lone = [p \in Procs |-> FALSE]
    /\ tw = [p \in Procs |-> nil]
    /\ wr = [to |-> nil, ts |-> NoTime, tested |-> nil]

concFixed == <<Sname, held, calls, last, old, nargs, nres, lin, lout>>

\* time passes
Tick ==
    /\ clock < MaxClock
    /\ clock' = clock + 1
    /\ UNCHANGED <<lg, mu, pc, lc, uw, ncalls, ts, lone, tw, wr, concFixed>>

\* p calls Log: the gate
LGate(p, level, msg) ==
    /\ pc[p] = "idle" /\ ncalls < MaxCalls
    /\ ncalls' = ncalls + 1
    /\ IF Gate(lg, level, msg)
       THEN /\ pc' = [pc EXCEPT ![p] = "L_now"]
            /\ lone' = [lone EXCEPT ![p] = OnlyCaller(msg)]
       ELSE UNCHANGED <<pc, lone>>
    /\ UNCHANGED <<lg, mu, lc, uw, clock, ts, tw, wr, concFixed>>

\* now := time.Now()
LNow(p) ==
    /\ pc[p] = "L_now"
    /\ ts' = [ts EXCEPT ![p] = clock]
    /\ pc' = [pc EXCEPT ![p] = "L_marker"]
    /\ UNCHANGED <<lg, mu, lc, uw, ncalls, clock, lone, tw, wr, concFixed>>

\* the caller-depth marker: return if nothing follows it; else build prem
LMarker(p) ==
    /\ pc[p] = "L_marker"
    /\ IF lone[p]
       THEN /\ pc' = [pc EXCEPT ![p] = "idle"]
            /\ ts' = [ts EXCEPT ![p] = NoTime]
            /\ lone' = [lone EXCEPT ![p] = FALSE]
       ELSE /\ pc' = [pc EXCEPT ![p] = "L_test"]
            /\ UNCHANGED <<ts, lone>>
    /\ UNCHANGED <<lg, mu, lc, uw, ncalls, clock, tw, wr, concFixed>>

\* lc, ok := lg.writer.(locker)
LTest(p) ==
    /\ pc[p] = "L_test"
    /\ tw' = [tw EXCEPT ![p] = lg.writer]
    /\ IF IsLocker(lg.writer)
       THEN lc' = [lc EXCEPT ![p] = lg.writer] /\ pc' = [pc EXCEPT ![p] = "L_lock"]
       ELSE lc' = lc /\ pc' = [pc EXCEPT ![p] = "L_write"]
    /\ UNCHANGED <<lg, mu, uw, ncalls, clock, ts, lone, wr, concFixed>>

\* Log that takes the lock without waiting for it
LLockNoWait(p) ==
    /\ pc[p] = "L_lock"
    /\ mu' = [mu EXCEPT ![lc[p]] = p]
    /\ pc' = [pc EXCEPT ![p] = "L_write"]
    /\ UNCHANGED <<lg, lc, uw, ncalls, clock, ts, lone, tw, wr, concFixed>>

\* Log that reads the clock once it has the lock
LLockStamps(p) ==
    /\ pc[p] = "L_lock"
    /\ mu[lc[p]] = 0
    /\ mu' = [mu EXCEPT ![lc[p]] = p]
    /\ ts' = [ts EXCEPT ![p] = clock]
    /\ pc' = [pc EXCEPT ![p] = "L_write"]
    /\ UNCHANGED <<lg, lc, uw, ncalls, clock, lone, tw, wr, concFixed>>

\* lc.Lock()
LLock(p) ==
    /\ pc[p] = "L_lock"
    /\ mu[lc[p]] = 0
    /\ mu' = [mu EXCEPT ![lc[p]] = p]
    /\ pc' = [pc EXCEPT ![p] = "L_write"]
    /\ UNCHANGED <<lg, lc, uw, ncalls, clock, ts, lone, tw, wr, concFixed>>

\* p's Log call returns: its locals are gone
LReturn(p) ==
    /\ pc' = [pc EXCEPT ![p] = "idle"]
    /\ lc' = [lc EXCEPT ![p] = nil]
    /\ ts' = [ts EXCEPT ![p] = NoTime]
    /\ tw' = [tw EXCEPT ![p] = nil]

\* fmt.Fprintln(lg.writer, msg...)
LWrite(p) ==
    /\ pc[p] = "L_write"
    /\ wr' = [to |-> lg.writer, ts |-> ts[p], tested |-> tw[p]]
    /\ IF lc[p] # nil
       THEN pc' = [pc EXCEPT ![p] = "L_unlock"] /\ UNCHANGED <<lc, ts, tw>>
       ELSE LReturn(p)
    /\ UNCHANGED <<lg, mu, uw, ncalls, clock, lone, concFixed>>

\* Log that returns without the deferred Unlock
LUnlockKeepsLock(p) ==
    /\ pc[p] = "L_unlock"
    /\ LReturn(p)
    /\ UNCHANGED <<lg, mu, uw, ncalls, clock, lone, wr, concFixed>>

\* the deferred lc.Unlock(), then return
LUnlock(p) ==
    /\ pc[p] = "L_unlock"
    /\ mu' = [mu EXCEPT ![lc[p]] = 0]
    /\ LReturn(p)
    /\ UNCHANGED <<lg, uw, ncalls, clock, lone, wr, concFixed>>

\* p calls UpdateWriter(w): the nil test, the locker tests and the early returns
UStart(p, w) ==
    /\ pc[p] = "idle" /\ ncalls < MaxCalls
    /\ ncalls' = ncalls + 1
    /\ IF UpdateWriterRefuses(lg, w)
       THEN UNCHANGED <<pc, lc, uw>>
       ELSE /\ uw' = [uw EXCEPT ![p] = w]
            /\ IF IsLocker(lg.writer)
               THEN lc' = [lc EXCEPT ![p] = lg.writer] /\ pc' = [pc EXCEPT ![p] = "U_lock"]
               ELSE lc' = lc /\ pc' = [pc EXCEPT ![p] = "U_assign"]
    /\ UNCHANGED <<lg, mu, clock, ts, lone, tw, wr, concFixed>>

\* lc.Lock()
ULock(p) ==
    /\ pc[p] = "U_lock"
    /\ mu[lc[p]] = 0
    /\ mu' = [mu EXCEPT ![lc[p]] = p]
    /\ pc' = [pc EXCEPT ![p] = "U_assign"]
    /\ UNCHANGED <<lg, lc, uw, ncalls, clock, ts, lone, tw, wr, concFixed>>

\* lg.writer = writer
UAssign(p) ==
    /\ pc[p] = "U_assign"
    /\ lg' = [lg EXCEPT !.writer = uw[p]]
    /\ pc' = [pc EXCEPT ![p] = IF lc[p] # nil THEN "U_unlock" ELSE "idle"]
    /\ uw' = [uw EXCEPT ![p] = nil]
    /\ UNCHANGED <<mu, lc, ncalls, clock, ts, lone, tw, wr, concFixed>>

\* the deferred lc.Unlock(), then return true
UUnlock(p) ==
    /\ pc[p] = "U_unlock"
    /\ mu' = [mu EXCEPT ![lc[p]] = 0]
    /\ lc' = [lc EXCEPT ![p] = nil]
    /\ pc' = [pc EXCEPT ![p] = "idle"]
    /\ UNCHANGED <<lg, uw, ncalls, clock, ts, lone, tw, wr, concFixed>>

\* arguments of the concurrent Log calls: below the threshold, at it, nolog;
\* no message, a marker alone, a payload, a marker and a payload
ConcLevels == {Sinfo, Swarn, Snolog}
ConcMsgs == {<<>>, <<Caller(1)>>, <<Val(7)>>, <<Caller(1), Val(7)>>}

\* the steps of Log calls
NextLogSteps ==
    \/ \E p \in Procs, v \in ConcLevels, m \in ConcMsgs : LGate(p, v, m)
    \/ \E p \in Procs : LNow(p)
    \/ \E p \in Procs : LMarker(p)
    \/ \E p \in Procs : LTest(p)
    \/ \E p \in Procs : LLock(p)
    \/ \E p \in Procs : LWrite(p)
    \/ \E p \in Procs : LUnlock(p)

\* the steps of UpdateWriter calls
NextUpdateSteps ==
    \/ \E p \in Procs, w \in Writers \cup {nil} : UStart(p, w)
    \/ \E p \in Procs : ULock(p)
    \/ \E p \in Procs : UAssign(p)
    \/ \E p \in Procs : UUnlock(p)

NextConc == NextLogSteps \/ NextUpdateSteps

SpecConc == InitConc /\ [][NextConc]_vars

\* Log calls only, no UpdateWriter
SpecLogOnly == InitConc /\ [][NextLogSteps]_vars

\* Log calls contending for the lock while the clock advances
NextClock == NextLogSteps \/ Tick

SpecClock == InitConc /\ [][NextClock]_vars

\* Every step of a started call is taken eventually; Lock is a fair mutex:
\* a caller that finds the lock free again and again gets it.
ConcFairness ==
    \A p \in Procs :
        /\ WF_vars(LNow(p)) /\ WF_vars(LMarker(p)) /\ WF_vars(LTest(p))
        /\ WF_vars(LWrite(p)) /\ WF_vars(LUnlock(p))
        /\ WF_vars(UAssign(p)) /\ WF_vars(UUnlock(p))
        /\ SF_vars(LLock(p)) /\ SF_vars(ULock(p))

SpecFair == InitConc /\ [][NextConc]_vars /\ ConcFairness

----------------------------------------------------------------------------
(* Properties of the sequential model *)

\* the message list without a leading caller-depth marker
Stripped(msg) == IF msg # <<>> /\ msg[1].caller THEN Tail(msg) ELSE msg

\* indices of the events of the last call that are calls of method m
CallsOf(m) == {i \in 1 .. Len(calls) : calls[i].m = m}

\* the last call was a Log call that, by its arguments and the threshold
\* before it, has something to log at an enabled severity
LastLogDue ==
    /\ last.op = "Log"
    /\ Stripped(last.msg) # <<>>
    /\ old.minLevel <= last.level
    /\ last.level < Snolog

\* C1: Log writes to the sink if and only if the message is non-empty after
\* removing a leading caller-depth marker and threshold <= severity < nolog;
\* otherwise it returns no error and calls no Write, Lock or Unlock.
C1_LogWritesIffDue ==
    last.op = "Log" =>
        /\ (CallsOf("Write") # {}) <=> LastLogDue
        /\ ~LastLogDue => (last.err = NoErr /\ calls = <<>>)

\* a Log call with a marker followed by a payload wrote; one at nolog threshold did not
C1_Witness ==
    /\ LastLogDue
    /\ Len(last.msg) = 2 /\ last.msg[1].caller
    /\ CallsOf("Write") # {}

\* C2: with a writer that is a locker, a Log call that passes the gate makes
\* exactly three calls on the writer: Lock, then one Write, then Unlock.
C2_LockWriteUnlock ==
    (LastLogDue /\ IsLocker(old.writer)) =>
        /\ Len(calls) = 3
        /\ calls[1] = LockEv(old.writer)
        /\ calls[2].m = "Write" /\ calls[2].w = old.writer
        /\ calls[3] = UnlockEv(old.writer)

C2_Witness == LastLogDue /\ IsLocker(old.writer) /\ Len(calls) = 3

\* the offered writer is nil, or it and the current writer are different lockers
LastUpdateMustFail ==
    /\ last.op = "UpdateWriter"
    /\ \/ last.writer = nil
       \/ IsLocker(old.writer) /\ IsLocker(last.writer) /\ last.writer # old.writer

\* C3: UpdateWriter(w) fails exactly when w is nil or the current writer and w
\* are two different lockers; otherwise it succeeds and the writer is then w.
C3_UpdateWriterResult ==
    last.op = "UpdateWriter" =>
        /\ ~last.success <=> LastUpdateMustFail
        /\ last.success => lg.writer = last.writer

\* the same locker instance offered again is accepted
C3_Witness ==
    /\ last.op = "UpdateWriter" /\ last.success
    /\ IsLocker(old.writer) /\ last.writer = old.writer /\ lg.writer = last.writer

\* C4: a failing UpdateWriter changes nothing of the Logger and calls no
\* Lock, Unlock or Write on either writer.
C4_FailedUpdateNoEffect ==
    LastUpdateMustFail => (lg = old /\ calls = <<>> /\ held = {})

C4_Witness ==
    /\ LastUpdateMustFail
    /\ last.writer # nil /\ ~last.success /\ lg.writer = old.writer

\* C5: a successful UpdateWriter on a Logger whose writer is a locker locks
\* that locker once before the writer field is assigned and unlocks it once
\* after, with no Write; when the current writer is not a locker it calls no
\* method on any writer, even if the new writer is a locker.
C5_UpdateBracketsSwap ==
    (last.op = "UpdateWriter" /\ last.success) =>
        IF IsLocker(old.writer)
        THEN calls = <<LockEv(old.writer), AssignEv(last.writer), UnlockEv(old.writer)>>
        ELSE calls = <<AssignEv(last.writer)>>

\* a locker replaced by a plain writer: the old locker brackets the swap
C5_Witness ==
    /\ last.op = "UpdateWriter" /\ last.success
    /\ IsLocker(old.writer) /\ ~IsLocker(last.writer)
    /\ Len(calls) = 3

\* C7: when the sink's Write fails in a Log call that passed the gate, Log
\* returns that error, writes only once, and still unlocks a locker writer.
C7_WriteErrorPropagated ==
    (LastLogDue /\ ~last.werr.isnil) =>
        /\ last.err = last.werr
        /\ Cardinality(CallsOf("Write")) = 1
        /\ IsLocker(old.writer) =>
              (calls[Len(calls)] = UnlockEv(old.writer) /\ old.writer \notin held)

C7_Witness ==
    /\ LastLogDue /\ ~last.werr.isnil
    /\ IsLocker(old.writer) /\ ~last.err.isnil

\* the Write of the last Fatal call happened and failed
FatalWriteFailed == CallsOf("Write") # {} /\ ~last.werr.isnil

\* C8: Fatal always panics; when its Log is suppressed it calls nothing on
\* the writer; the panic message is Name() followed by the current fatal
\* severity name, followed by the write error text iff the write failed.
C8_FatalAlwaysPanics ==
    last.op = "Fatal" =>
        /\ last.panicked
        /\ (old.minLevel = Snolog \/ Stripped(last.msg) = <<>>) => calls = <<>>
        /\ last.pm = SubSeq(old.name, 3, Len(old.name)) \o Sname[Sfatal + 1]
                        \o (IF FatalWriteFailed THEN last.werr.text ELSE <<>>)

\* Fatal at threshold nolog with a real message: nothing written, still panics
C8_Witness ==
    /\ last.op = "Fatal" /\ old.minLevel = Snolog
    /\ Stripped(last.msg) # <<>> /\ last.panicked /\ calls = <<>>

\* the threshold SetLevel(v) is to store
Clamped(v) == IF v <= Snolog THEN v ELSE Snolog

\* C10: SetLevel(v) stores v when v <= nolog and nolog otherwise, a GetLevel
\* that follows returns the stored value, and SetLevel changes nothing else.
C10_SetLevelClamps ==
    [][ /\ last'.op = "SetLevel" =>
              /\ lg'.minLevel = Clamped(last'.level)
              /\ lg'.name = lg.name /\ lg'.writer = lg.writer
              /\ Sname' = Sname /\ held' = held /\ calls' = <<>>
        /\ (last.op = "SetLevel" /\ last'.op = "GetLevel") =>
              last'.ret = Clamped(last.level)
      ]_vars

C10_Witness ==
    /\ last.op = "SetLevel" /\ last.level > Snolog /\ lg.minLevel = Snolog

\* C15: after any sequence of Log, UpdateWriter, SetLevel, GetLevel, Name
\* (and Fatal) calls the writer is not nil, the threshold is within
\* info..nolog, and the name is the one given to New: the one the Logger
\* had before the last call.
C15_LoggerInvariant ==
    /\ lg.writer # nil /\ lg.writer \in Writers
    /\ Sinfo <= lg.minLevel /\ lg.minLevel <= Snolog
    /\ lg.name \in SampleNames /\ lg.name = old.name
    /\ ~NewPanics(lg.name, lg.writer, lg.minLevel)

\* UpdateWriter(nil) has just failed and left the Logger, with a plain writer
\* and the threshold at nolog, as it was
C15_Witness ==
    /\ last.op = "UpdateWriter" /\ last.writer = nil
    /\ lg.writer = "W2" /\ lg.minLevel = Snolog /\ lg = old

----------------------------------------------------------------------------
(* Properties of New *)

\* the name is well-formed up to its two interior end bytes
NameFramed(name) ==
    /\ Len(name) >= 4
    /\ SubSeq(name, 1, 2) = <<58, 32>>
    /\ name[Len(name)] = 58

\* space, tab, newline, carriage return
Whitespace == {32, 9, 10, 13}

\* C9 as stated: New panics iff the name is too short or not wrapped in ": "
\* and ":", or its first or last interior character is one of space, tab,
\* newline, carriage return, or the writer is nil, or minLevel > nolog.
C9_AsStated ==
    nres.called =>
        (nres.r.panicked <=>
            \/ ~NameFramed(nargs.name)
            \/ nargs.name[3] \in Whitespace
            \/ nargs.name[Len(nargs.name) - 1] \in Whitespace
            \/ nargs.writer = nil
            \/ nargs.minLevel > Snolog)

\* C9 (amended): New panics iff the name is too short or not wrapped in ": "
\* and ":", or its first or last interior byte is a space or any byte below
\* it (value <= 32), or the writer is nil, or minLevel > nolog; otherwise it
\* returns a Logger holding exactly the arguments.
C9_NewPanicsIff ==
    nres.called =>
        /\ nres.r.panicked <=>
              \/ ~NameFramed(nargs.name)
              \/ nargs.name[3] <= 32
              \/ nargs.name[Len(nargs.name) - 1] <= 32
              \/ nargs.writer = nil
              \/ nargs.minLevel > Snolog
        /\ ~nres.r.panicked =>
              nres.r.lg = [name |-> nargs.name, writer |-> nargs.writer,
                           minLevel |-> nargs.minLevel]

\* a framed name whose last interior byte is a vertical tab made New panic
C9_Witness ==
    /\ nres.called /\ nres.r.panicked
    /\ NameFramed(nargs.name) /\ Len(nargs.name) = 5
    /\ nargs.name[3] = 97 /\ nargs.name[4] = 11
    /\ nargs.writer # nil /\ nargs.minLevel <= Snolog

----------------------------------------------------------------------------
(* Properties of Log as a function *)

\* the caller depth a message asks for: 0 without a leading marker, else the
\* marker value brought into 0 .. 99
AskedDepth(msg) ==
    IF msg[1].caller
    THEN (IF msg[1].v <= 0 THEN 0 ELSE IF msg[1].v >= 99 THEN 99 ELSE msg[1].v)
    ELSE 0

\* the payload as it is to appear: every element after a leading marker,
\* each preceded by one space, then one newline
RECURSIVE SpacedPayload(_)
SpacedPayload(rest) ==
    IF rest = <<>> THEN <<10>>
    ELSE <<32>> \o Digits(rest[1].v) \o SpacedPayload(Tail(rest))

\* the bytes of the single Write of the call, <<>> if there was none
Written ==
    LET ws == {i \in 1 .. Len(lout.r.calls) : lout.r.calls[i].m = "Write"}
    IN IF Cardinality(ws) = 1 THEN lout.r.calls[CHOOSE i \in ws : TRUE].p ELSE <<>>

\* the reported location is the j-th frame of the calling program
ReportsUserFrame(j) ==
    /\ lout.loc.ok
    /\ Base(lout.loc.file) = Base(UserSite(j).file)
    /\ lout.loc.line = UserSite(j).line

\* the record ends with the payload without the marker, and nothing but prem precedes it
PayloadWithoutMarker ==
    Written = PremOf(lin.lgr, lin.sname, EnvOf(lin), lin.level, lin.msg)
                 \o SpacedPayload(Stripped(lin.msg))

\* C11 as stated: the reported location is the frame d levels above the
\* immediate call site of the logging operation, for Log called directly as
\* well as for the wrappers, with d the marker clamped into 0 .. 99.
C11_AsStated ==
    (lout.called /\ lout.emits /\ lout.loc.ok) =>
        ReportsUserFrame(AskedDepth(lin.msg) + 1)

\* C11 (amended): through a wrapper (Info, Warn, Error, Fatal) the reported
\* location is the frame d levels above the call site of the wrapper; for Log
\* called directly it is the frame d + 1 levels above the call of Log; d is 0
\* without a marker and the marker clamped into 0 .. 99 otherwise; the lookup
\* fails exactly when the stack has no such frame; the marker is not in the
\* written payload.
C11_Location ==
    (lout.called /\ lout.emits) =>
        LET j == AskedDepth(lin.msg) + (IF lin.direct THEN 2 ELSE 1)
        IN /\ lout.loc.ok <=> j <= lin.depth
           /\ lout.loc.ok => ReportsUserFrame(j)
           /\ PayloadWithoutMarker

\* a marker above 99 through a wrapper on a deep stack reports frame 99 above the call site
C11_Witness ==
    /\ lout.called /\ lout.emits /\ ~lin.direct
    /\ lin.msg[1] = Caller(MaxSkip + 1) /\ lin.depth = MaxDepth
    /\ ReportsUserFrame(MaxSkip + 1)

\* C12: every record is written in one Write call and is timestamp + stored
\* name + severity name of the table at the time of the call + " file:line:"
\* if the location was resolved + the payload elements each preceded by one
\* space + one newline; a failed location resolution gives a record without
\* the segment and no error of its own.
C12_RecordFormat ==
    (lout.called /\ lout.emits) =>
        /\ Cardinality({i \in 1 .. Len(lout.r.calls) : lout.r.calls[i].m = "Write"}) = 1
        /\ Written = TimeStr(EnvOf(lin)) \o lin.lgr.name \o lin.sname[lin.level + 1]
                        \o (IF lout.loc.ok
                            THEN <<32>> \o Base(lout.loc.file) \o <<58>>
                                    \o Digits(lout.loc.line) \o <<58>>
                            ELSE <<>>)
                        \o SpacedPayload(Stripped(lin.msg))
        /\ lout.r.err = lin.werr

\* a record at warn with a replaced severity name and no resolvable location
C12_Witness ==
    /\ lout.called /\ lout.emits /\ ~lout.loc.ok
    /\ lin.level = Swarn /\ lin.sname[Swarn + 1] = SnameAlt
    /\ lin.werr = NoErr /\ lout.r.err = NoErr
    /\ Len(Stripped(lin.msg)) = 2

----------------------------------------------------------------------------
(* Properties of the concurrent model *)

\* p is in a Log call between its Lock and its Unlock
InLogLocked(p) == pc[p] \in {"L_write", "L_unlock"} /\ lc[p] # nil

Holders(l) == {p \in Procs : InLogLocked(p) /\ lc[p] = l}

\* C13: with a mutex as writer and no UpdateWriter calls, at most one Log
\* call is between Lock and Unlock at any time, that call is the owner of the
\* mutex, and a contending call gets to its Write only when no other call is
\* between Lock and Unlock.
C13_LogExcludesLog ==
    /\ [](\A l \in Lockers :
              /\ Cardinality(Holders(l)) <= 1
              /\ Holders(l) = IF mu[l] = 0 THEN {} ELSE {mu[l]})
    /\ [][\A p \in Procs :
              pc[p] = "L_lock" /\ pc'[p] = "L_write"
                  => \A q \in Procs \ {p} : ~InLogLocked(q)]_vars

\* one call holds the lock, its record written, while another waits in Lock
C13_Witness ==
    \E p, q \in Procs :
        /\ p # q
        /\ pc[p] = "L_unlock" /\ mu["L1"] = p /\ wr.to = "L1"
        /\ pc[q] = "L_lock" /\ lc[q] = "L1"

\* p's step keeps the timestamp its Log call read: the value is the clock at
\* the read, the read comes after the gate and before the locker test and the
\* Lock, and no later step of the call changes it, the Write records it
StampKept(p) ==
    /\ pc[p] \in {"idle", "L_now"} => ts[p] = NoTime
    /\ pc[p] = "L_now" /\ pc'[p] # "L_now" => ts'[p] = clock
    /\ pc[p] \in {"L_marker", "L_test", "L_lock", "L_write", "L_unlock"}
          => ts[p] # NoTime /\ (pc'[p] # "idle" => ts'[p] = ts[p])
    /\ pc[p] = "L_write" /\ pc'[p] # "L_write" => wr'.ts = ts[p]

\* p's step ends a Log call that wrote nothing
ReturnsSuppressed(p) ==
    \/ pc[p] = "idle" /\ pc'[p] = "idle" /\ ncalls' = ncalls + 1
    \/ pc[p] = "L_marker" /\ pc'[p] = "idle"

\* C14 as stated: no call that ends up suppressed, a call whose message is
\* only a marker included, has read the clock; an emitted record carries the
\* time read before Lock was requested.
C14_AsStated ==
    [][\A p \in Procs :
          /\ StampKept(p)
          /\ ReturnsSuppressed(p) => ts[p] = NoTime]_vars

\* C14: a call suppressed by the gate (empty message, level below the
\* threshold, level >= nolog) never reads the clock; a call that passes the
\* gate reads it once, right after the gate and before the locker test and
\* the Lock; a call whose message is only a marker has read it when it
\* returns without writing; an emitted record carries the value read, however
\* long the call waited for the lock.
C14_ClockRead ==
    [][\A p \in Procs :
          /\ StampKept(p)
          /\ pc[p] = "idle" => ts'[p] = NoTime
          /\ pc[p] = "L_marker" /\ pc'[p] = "idle"
                => lone[p] /\ ts[p] # NoTime /\ wr' = wr]_vars

\* a marker-only call has read the clock, and a record written under the lock
\* carries a time earlier than the clock's
C14_Witness ==
    \E p, q \in Procs :
        /\ pc[p] = "L_marker" /\ lone[p] /\ ts[p] = clock
        /\ pc[q] = "L_unlock" /\ wr.ts = ts[q] /\ ts[q] < clock

\* the locker the Logger of the concurrent model was created with
FirstLocker == "L1"

C17_WritesToTested == wr.to = wr.tested

\* p is in a call between a Lock that returned and the deferred Unlock
HoldsLock(p) ==
    lc[p] # nil /\ pc[p] \in {"L_write", "L_unlock", "U_assign", "U_unlock"}

\* C18: with a fair mutex and a Write that always returns, every started Log
\* or UpdateWriter call returns; a lock is owned exactly by the call that is
\* between its Lock and its Unlock, is released only by that call, on its
\* return, and a call that has returned owns no lock: once all calls have
\* returned every lock is free.
C18_CallsReturnLockFree ==
    /\ \A p \in Procs : (pc[p] # "idle") ~> (pc[p] = "idle")
    /\ [](\A l \in Lockers :
              mu[l] # 0 => HoldsLock(mu[l]) /\ lc[mu[l]] = l)
    /\ [](\A p \in Procs : HoldsLock(p) => mu[lc[p]] = p)
    /\ []((\A p \in Procs : pc[p] = "idle") => \A l \in Lockers : mu[l] = 0)
    /\ [][\A l \in Lockers :
              mu[l] # 0 /\ mu'[l] # mu[l]
                  => mu'[l] = 0 /\ pc'[mu[l]] = "idle"]_vars

\* all calls are spent and have returned, a record was written under the
\* first lock, the writer was replaced, and the locks are free
C18_Witness ==
    /\ ncalls = MaxCalls /\ \A p \in Procs : pc[p] = "idle"
    /\ wr.tested = FirstLocker /\ lg.writer # FirstLocker
    /\ \A l \in Lockers : mu[l] = 0

====
